---- MODULE Spec2Model ----
(***************************************************************************)
(* Model of rooware-io/executor: the Executor of core/src/executor.rs      *)
(* (local fork, recency clock, batch pipeline) behind the single tokio     *)
(* Mutex of server/src/main.rs.                                            *)
(*                                                                         *)
(* Balances are counted in units of 2^20 lamports, so that the faucet's    *)
(* 1 << 48 lamports is 2^28 units.                                         *)
(***************************************************************************)
EXTENDS Integers, Sequences, FiniteSets, TLC

\* ------------------------------------------------------------------ bounds
MaxRequests == 2
MaxBatch == 2
TicksPerSlot == 2
MaxSlot == 3
MaxNow == 1
MaxInstructions == 258

Tasks == {1, 2}

\* ------------------------------------------------------------------ keys
SYSTEM_PID == "system"
BPF_LOADER2_PID == "loader2"
BPF_LOADER_UPGRADEABLE_PID == "loader_upgradeable"
SYSVAR_PID == "sysvar"
SPL_ASSOCIATED_TOKEN_PID == "atoken"
SPL_MEMO1_PID == "memo1"
SPL_MEMO3_PID == "memo3"
SPL_TOKEN_PID == "token"
SYSVAR_RENT_ADDRESS == "rent"
Memo1Literal == "memo1"

\* Keys a request can name: the faucet, a payer that exists on the remote
\* ledger, a key that exists nowhere, an upgradeable program and its
\* program-data address, and the genesis programs.
KeyOrder ==
    << "atoken", "faucet", "fresh", "memo1", "memo3", "payer", "prog",
       "progdata", "rent", "system", "system_pda", "token", "token_pda" >>

Keys == {KeyOrder[i] : i \in 1..Len(KeyOrder)}

KeyIndex(k) == CHOOSE i \in 1..Len(KeyOrder) : KeyOrder[i] = k

\* ------------------------------------------------------------------ accounts
NoData == [tag |-> "empty", len |-> 0]

\* Option<Account>::None
None == [lamports |-> 0, data |-> NoData, executable |-> FALSE,
         owner |-> "none", rent_epoch |-> 0]

IsSome(a) == a # None

MkAccount(l, d, e, o, r) ==
    [lamports |-> l, data |-> d, executable |-> e, owner |-> o, rent_epoch |-> r]

\* Program data (programs.rs): opaque embedded blobs.
SPL_ASSOCIATED_TOKEN == [tag |-> "spl_associated-token-account-1.0.1.so", len |-> 3]
SPL_MEMO1 == [tag |-> "spl_memo-1.0.0.so", len |-> 1]
SPL_MEMO3 == [tag |-> "spl_memo-3.0.0.so", len |-> 2]
SPL_TOKEN == [tag |-> "spl_token-3.1.0.so", len |-> 4]

\* 1u64 << 48 lamports, in units of 2^20 lamports.
FaucetLamports == 268435456

\* config.rent.minimum_balance(data.len())
minimum_balance(len) == 1 + len

\* lamports_per_signature of the engine, one signature per transaction.
FeePerSignature == 1

\* packet::PACKET_DATA_SIZE
PACKET_DATA_SIZE == 1232

\* ------------------------------------------------------------------ genesis
EmptyAccounts == [k \in Keys |-> None]

\* GenesisConfig::add_account: a BTreeMap insert, the later one wins.
add_account(config, pubkey, account) == [config EXCEPT ![pubkey] = account]

add_rent_exempt_account_with_data(config, pubkey, owner, data, executable) ==
    add_account(config, pubkey,
                MkAccount(minimum_balance(data.len), data, executable, owner, 0))

add_account_with_lamports(config, pubkey, owner, lamports) ==
    add_account(config, pubkey, MkAccount(lamports, NoData, FALSE, owner, 0))

\* The builtin the engine itself installs at the system program's key.
SystemBuiltin == MkAccount(1, [tag |-> "system_program", len |-> 1], TRUE, "native_loader", 0)

\* ExecutorBuilder::new_with_config: the four embedded programs and the rent
\* sysvar are added to the caller's genesis accounts.
new_with_config(genesis) ==
    LET c1 == add_rent_exempt_account_with_data(genesis, SPL_ASSOCIATED_TOKEN_PID,
                                                BPF_LOADER2_PID, SPL_ASSOCIATED_TOKEN, TRUE)
        c2 == add_rent_exempt_account_with_data(c1, Memo1Literal,
                                                BPF_LOADER2_PID, SPL_MEMO1, TRUE)
        c3 == add_rent_exempt_account_with_data(c2, SPL_MEMO1_PID,
                                                BPF_LOADER2_PID, SPL_MEMO3, TRUE)
        c4 == add_rent_exempt_account_with_data(c3, SPL_TOKEN_PID,
                                                BPF_LOADER2_PID, SPL_TOKEN, TRUE)
    IN  add_account_with_lamports(c4, SYSVAR_RENT_ADDRESS, SYSVAR_PID, 1)

\* ExecutorBuilder::new: a genesis holding the funded faucet.
builder_new ==
    new_with_config(add_account(EmptyAccounts, "faucet",
                                MkAccount(FaucetLamports, NoData, FALSE, SYSTEM_PID, 0)))

\* ExecutorConfig::default: GenesisConfig::default() has no accounts.
config_default == new_with_config(EmptyAccounts)

\* Bank::new_with_paths: the genesis accounts plus the engine's builtins.
GenesisFork(path) ==
    [(IF path = "new" THEN builder_new ELSE config_default)
        EXCEPT !["system"] = SystemBuiltin]

\* ------------------------------------------------------------------ remote ledger
Endpoints == {"mainnet", "devnet"}
Commitments == {"processed", "finalized"}
DEFAULT_RPC_ENDPOINT == "mainnet"
DefaultBinding == [endpoint |-> DEFAULT_RPC_ENDPOINT, commitment |-> "processed"]

RemoteProgram == MkAccount(1, [tag |-> "programdata_pointer", len |-> 1], TRUE,
                           BPF_LOADER_UPGRADEABLE_PID, 0)
RemoteProgramData == MkAccount(5, [tag |-> "prog.so", len |-> 4], FALSE,
                               BPF_LOADER_UPGRADEABLE_PID, 0)
RemoteToken == MkAccount(7, [tag |-> "spl_token-3.3.0.so", len |-> 6], TRUE,
                         BPF_LOADER2_PID, 2)

\* What the ledger behind an endpoint holds.
RemoteLedger(binding) ==
    IF binding.endpoint = "mainnet"
    THEN [k \in Keys |->
            CASE k = "payer"    -> MkAccount(4, NoData, FALSE, SYSTEM_PID, 0)
              [] k = "prog"     -> RemoteProgram
              [] k = "progdata" -> RemoteProgramData
              [] k = "token"    -> RemoteToken
              [] k = "system"   -> SystemBuiltin
              [] OTHER          -> None]
    ELSE [k \in Keys |->
            CASE k = "payer"    -> MkAccount(3, NoData, FALSE, SYSTEM_PID, 0)
              [] k = "prog"     -> RemoteProgram
              [] OTHER          -> None]

\* ------------------------------------------------------------------ transactions
Tx(id, kind, payer, to, program, amt, space, size) ==
    [id |-> id, kind |-> kind, payer |-> payer, to |-> to, program |-> program,
     amt |-> amt, space |-> space, size |-> size, recent_blockhash |-> "in_queue"]

\* A transfer out of an account the remote holds, the creation of an account
\* the remote does not hold, the call of an upgradeable program that is also
\* handed the token program, a transfer too large for a packet, and a transfer
\* whose recent blockhash is not in the bank's blockhash queue.
TxPool ==
    { Tx(1, "transfer", "payer", "fresh", "system", 2, 0, 200),
      Tx(2, "create", "faucet", "fresh", "system", 2, 1, 200),
      Tx(3, "invoke", "payer", "token", "prog", 0, 0, 200),
      Tx(4, "transfer", "payer", "fresh", "system", 1, 0, PACKET_DATA_SIZE + 1),
      [Tx(5, "transfer", "payer", "fresh", "system", 1, 0, 200)
          EXCEPT !.recent_blockhash = "not_in_queue"] }

\* tx.message.account_keys
account_keys(tx) == {tx.payer, tx.to, tx.program}

RECURSIVE SeqsUpTo(_, _)
SeqsUpTo(S, n) ==
    IF n = 0 THEN {<<>>}
    ELSE LET shorter == SeqsUpTo(S, n - 1)
         IN  shorter \cup {Append(s, x) : s \in {q \in shorter : Len(q) = n - 1}, x \in S}

Batches == SeqsUpTo(TxPool, MaxBatch)

\* Pubkey::find_program_address(&[address], &BPF_LOADER_UPGRADEABLE_PID).0
find_program_address(address) ==
    CASE address = "prog"   -> "progdata"
      [] address = "token"  -> "token_pda"
      [] address = "system" -> "system_pda"
      [] OTHER              -> "system_pda"

\* ------------------------------------------------------------------ engine (Bank)
\* Bank::store_account
store_account(f, address, account) == [f EXCEPT ![address] = account]

\* Bank::get_account: an account without lamports does not exist.
bank_get_account(f, pubkey) == IF f[pubkey].lamports = 0 THEN None ELSE f[pubkey]

Debit(f, k, n) ==
    LET a == [f[k] EXCEPT !.lamports = @ - n]
    IN  [f EXCEPT ![k] = IF a.lamports = 0 THEN None ELSE a]

Credit(f, k, n) ==
    [f EXCEPT ![k] = IF IsSome(f[k]) THEN [f[k] EXCEPT !.lamports = @ + n]
                     ELSE MkAccount(n, NoData, FALSE, SYSTEM_PID, 0)]

\* Why the engine refuses to load a transaction, or "ok".
LoadError(f, tx) ==
    CASE tx.recent_blockhash # "in_queue" -> "BlockhashNotFound"
      [] ~IsSome(bank_get_account(f, tx.payer)) -> "AccountNotFound"
      [] f[tx.payer].lamports < FeePerSignature -> "InsufficientFundsForFee"
      [] ~IsSome(bank_get_account(f, tx.program)) -> "ProgramAccountNotFound"
      [] ~f[tx.program].executable -> "InvalidProgramForExecution"
      [] /\ f[tx.program].owner = BPF_LOADER_UPGRADEABLE_PID
         /\ ~IsSome(bank_get_account(f, find_program_address(tx.program)))
            -> "MissingProgramData"
      [] OTHER -> "ok"

\* The instruction of a loaded transaction, run on the fork the fee has been
\* taken from: the new fork and the status.
RunInstruction(f, tx) ==
    CASE tx.kind = "transfer" ->
            IF f[tx.payer].lamports < tx.amt
            THEN [fork |-> f, status |-> "InsufficientFunds"]
            ELSE [fork |-> Credit(Debit(f, tx.payer, tx.amt), tx.to, tx.amt),
                  status |-> "Ok"]
      [] tx.kind = "create" ->
            IF IsSome(bank_get_account(f, tx.to))
            THEN [fork |-> f, status |-> "AccountAlreadyInUse"]
            ELSE IF f[tx.payer].lamports < tx.amt
            THEN [fork |-> f, status |-> "InsufficientFunds"]
            ELSE [fork |-> store_account(Debit(f, tx.payer, tx.amt), tx.to,
                              MkAccount(tx.amt, [tag |-> "zeros", len |-> tx.space],
                                        FALSE, SYSTEM_PID, 0)),
                  status |-> "Ok"]
      [] OTHER -> [fork |-> f, status |-> "Ok"]

\* Bank::load_execute_and_commit_transactions on a batch of one transaction.
load_execute_and_commit_transactions(f, tx) ==
    LET err == LoadError(f, tx)
    IN  IF err # "ok"
        THEN [fork |-> f, executed |-> FALSE, status |-> err, charged |-> 0]
        ELSE LET r == RunInstruction(Debit(f, tx.payer, FeePerSignature), tx)
             IN  [fork |-> r.fork, executed |-> TRUE, status |-> r.status,
                  charged |-> FeePerSignature]

\* Option<u64>::None
NoFee == 0 - 1

\* Bank::get_fee_for_message: the fee rate is looked up under the message's
\* recent blockhash, and there is no fee for a blockhash the queue does not hold.
get_fee_for_message(tx) ==
    IF tx.recent_blockhash = "in_queue" THEN FeePerSignature ELSE NoFee

\* Bank::is_block_boundary with fix_recent_blockhashes removed from genesis.
is_block_boundary(tick_height) == tick_height % TicksPerSlot = 0

\* Bank::register_tick on the clock [tick_height, last_blockhash].
register_tick(clock, hash) ==
    [tick_height |-> clock.tick_height + 1,
     last_blockhash |-> IF is_block_boundary(clock.tick_height + 1)
                        THEN hash ELSE clock.last_blockhash]

\* ------------------------------------------------------------------ Executor, pure parts
\* Option<Hash>::None, the genesis hash, and the hashes a caller can send: the
\* genesis hash, the first two values of Hash::new_unique, and one it never mints.
NoHash == 0 - 1
GenesisHash == 0
ForeignHash == MaxRequests + 1000
CallerHashes == {GenesisHash, 1, 2, ForeignHash}

\* A token read from the hash of genesis instead of the bank's last blockhash.
get_latest_blockhash_genesis(c) == GenesisHash

\* Executor::get_latest_blockhash
get_latest_blockhash(c) == c.last_blockhash

\* A distance without the case of slot 0.
parent_distance_no_bootstrap(s, p) == s - p

\* advance_blockhash, lines 107-111
parent_distance(s, p) == IF s = 0 THEN 1 ELSE s - p

\* A candidate that is always minted, whatever the caller sent.
takes_caller_hash_never(hash, last) == FALSE

\* advance_blockhash, lines 115-118: TRUE when the caller's hash is the candidate.
takes_caller_hash(hash, last) == hash # NoHash /\ hash # last

\* A loop that assumes one tick per new blockhash: it ticks only from a boundary.
while_condition_single_tick(c, last_snapshot) ==
    c.last_blockhash = last_snapshot /\ c.tick_height % TicksPerSlot = 0

\* advance_blockhash, line 120
while_condition(c, last_snapshot) == c.last_blockhash = last_snapshot

\* execute_transaction_batch, lines 253-258: sorted, deduplicated keys.
RECURSIVE SortedSeq(_, _)
SortedSeq(S, i) ==
    IF i > Len(KeyOrder) THEN <<>>
    ELSE IF KeyOrder[i] \in S THEN <<KeyOrder[i]>> \o SortedSeq(S, i + 1)
    ELSE SortedSeq(S, i + 1)

\* Keys collected from the first transaction of the batch only.
batch_account_keys_first(batch) ==
    IF batch = <<>> THEN <<>> ELSE SortedSeq(account_keys(batch[1]), 1)

batch_account_keys(batch) ==
    SortedSeq(UNION {account_keys(batch[i]) : i \in 1..Len(batch)}, 1)

\* A fetch that keeps a pair for every key, an empty account where the remote
\* has none.
RECURSIVE filter_map_all(_, _, _)
filter_map_all(answer, keys, i) ==
    IF i > Len(keys) THEN <<>>
    ELSE << <<keys[i], answer[keys[i]]>> >> \o filter_map_all(answer, keys, i + 1)

\* lines 265-272 and 293-300: the (address, account) pairs of the keys the
\* remote returned an account for, in key order.
RECURSIVE filter_map_some(_, _, _)
filter_map_some(answer, keys, i) ==
    IF i > Len(keys) THEN <<>>
    ELSE IF IsSome(answer[keys[i]])
         THEN << <<keys[i], answer[keys[i]]>> >> \o filter_map_some(answer, keys, i + 1)
         ELSE filter_map_some(answer, keys, i + 1)

\* A batch call without the dependency-expansion pass.
program_data_account_keys_none(account_infos) == <<>>

\* lines 275-286
program_data_account_keys(account_infos) ==
    SortedSeq({find_program_address(account_infos[i][1]) :
                  i \in {j \in 1..Len(account_infos) : account_infos[j][2].executable}}, 1)

\* A merge that keeps what the fork already holds.
merge_overwrites_if_absent(f, address) == ~IsSome(f[address])

\* lines 303-314: whether the fetched account is written over the fork's entry.
merge_overwrites(f, address) == TRUE

RECURSIVE store_all(_, _, _)
store_all(f, infos, i) ==
    IF i > Len(infos) THEN f
    ELSE store_all(IF merge_overwrites(f, infos[i][1])
                   THEN store_account(f, infos[i][1], infos[i][2]) ELSE f,
                   infos, i + 1)

\* lines 302-314
merge_fetched(f, account_infos, account_infos_2) ==
    store_all(f, account_infos \o account_infos_2, 1)

\* lines 187-188: expect() on the fee panics when there is none.
fee_is_none(tx) == get_fee_for_message(tx) = NoFee

\* A size check that is never taken.
is_too_large_never(tx) == FALSE

\* lines 131-139
is_too_large(tx) == tx.size > PACKET_DATA_SIZE

\* lines 190-194: the status of a result.
result_status(outcome) == outcome.status

\* execute_transaction_internal, lines 140-245, for a transaction that passes
\* the size check: the fork it leaves and the result it returns.
execute_transaction_internal(f, tx, s, unix_time) ==
    LET outcome == load_execute_and_commit_transactions(f, tx)
        order == <<tx.payer, tx.to, tx.program>>
    IN  [fork |-> outcome.fork,
         result |-> [tx |-> tx.id,
                     slot |-> s,
                     status |-> result_status(outcome),
                     executed |-> outcome.executed,
                     fee |-> get_fee_for_message(tx),
                     block_time |-> unix_time,
                     pre_balances |-> [i \in 1..3 |-> f[order[i]].lamports],
                     post_balances |-> [i \in 1..3 |-> outcome.fork[order[i]].lamports]]]

\* A collection that keeps only the transactions the engine executed.
collect_result_executed_only(results, result) ==
    IF result.executed THEN Append(results, result) ELSE results

\* lines 316-319: the result list grows by the result of each transaction.
collect_result(results, result) == Append(results, result)

\* Every transaction run on the fork as the merge left it.
transaction_fork_snapshot(current, merged) == merged

\* line 318: the fork a transaction runs on is the bank as it is now.
transaction_fork(current, merged) == current

\* Executor::get_account
get_account(f, pubkey) == bank_get_account(f, pubkey)

\* Executor::get_accounts
get_accounts(f, pubkeys) == [i \in 1..Len(pubkeys) |-> bank_get_account(f, pubkeys[i])]

\* Executor::get_minimum_rent_exempt_balance
get_minimum_rent_exempt_balance(data_length) == minimum_balance(data_length)

\* ------------------------------------------------------------------ inner instructions
\* The range of u8, the type of InnerInstructions::index.
U8 == 256

\* Option::None for the list of inner instructions.
NoInnerInstructions == << [index |-> 0 - 1, instructions |-> <<>>] >>

\* lines 196-206: every sub-trace of the engine is paired with its position
\* (index as u8), then the pairs with an empty sub-trace are dropped.
enumerate_filter(traces) ==
    LET kept == {i \in 1..Len(traces) : traces[i] # <<>>}
        nth(j) == CHOOSE i \in kept : Cardinality({k \in kept : k <= i}) = j
    IN  [j \in 1..Cardinality(kept) |->
            [index |-> (nth(j) - 1) % U8, instructions |-> traces[nth(j)]]]

\* lines 190-206: a transaction that was not executed has None.
inner_instructions(executed, traces) ==
    IF executed THEN enumerate_filter(traces) ELSE NoInnerInstructions

NoMeta == [phase |-> "none", executed |-> FALSE, traces |-> <<>>,
           inner_instructions |-> NoInnerInstructions]

\* ------------------------------------------------------------------ state
VARIABLES
    fork,           \* bank: Pubkey -> Account (None when absent)
    clock,          \* bank: [tick_height, last_blockhash]
    next_unique,    \* the counter behind Hash::new_unique
    slot,           \* bank.slot()
    parent_slot,    \* bank.parent_slot()
    rpc_client,     \* the (endpoint, commitment) the RpcClient was made with
    rpc_requests,   \* the number of multi-gets sent to the remote ledger
    lock,           \* the Mutex of Context: Free, or the task holding it
    alive,          \* FALSE once a panic has taken the process down
    pc,             \* where each task is
    local,          \* each task's request and the locals of its call
    resp,           \* the last reply each task got
    budget,         \* requests the clients may still send
    ctor,           \* how the Executor was configured
    now,            \* the wall clock as last read (SystemTime::now)
    meta            \* a transaction's inner instructions: the engine's and the result's

vars == << fork, clock, next_unique, slot, parent_slot, rpc_client, rpc_requests, lock, alive, pc, local, resp, budget, ctor, meta, now >>

Main == 0
Free == 0 - 1
AllTasks == Tasks \cup {Main}

Bindings == {DefaultBinding, [endpoint |-> "devnet", commitment |-> "finalized"]}
ReadKeys == {"fresh", "payer"}
ReadKeyLists == { <<"fresh", "payer">> }

IdleLocal ==
    [op |-> "none", key |-> "fresh", keys |-> <<>>, hash |-> NoHash, batch |-> <<>>,
     binding |-> DefaultBinding, data_length |-> 0,
     distance_left |-> 0, last_snapshot |-> GenesisHash, new_hash |-> GenesisHash,
     minted |-> NoHash, before |-> GenesisHash, steps |-> 0, ticks |-> 0,
     account_keys |-> <<>>, account_infos |-> <<>>,
     program_data_account_keys |-> <<>>, account_infos_2 |-> <<>>,
     idx |-> 1, results |-> <<>>, trace |-> <<>>,
     fork0 |-> EmptyAccounts, merged |-> EmptyAccounts, rpc0 |-> 0,
     bindings |-> <<>>]

NoReply == [outcome |-> "none", hash |-> NoHash, accounts |-> <<>>, results |-> <<>>,
            balance |-> 0]

\* The requests a client can send (the routes of server/src/main.rs).
Requests ==
    {[IdleLocal EXCEPT !.op = "latest_blockhash"]}
    \cup {[IdleLocal EXCEPT !.op = "advance_blockhash", !.hash = h] :
             h \in CallerHashes \cup {NoHash}}
    \cup {[IdleLocal EXCEPT !.op = "set_rpc_config", !.binding = b] : b \in Bindings}
    \cup {[IdleLocal EXCEPT !.op = "rent_exempt_balance", !.data_length = n] : n \in {1}}
    \cup {[IdleLocal EXCEPT !.op = "get_account", !.key = k] : k \in ReadKeys}
    \cup {[IdleLocal EXCEPT !.op = "get_accounts", !.keys = ks] : ks \in ReadKeyLists}
    \cup {[IdleLocal EXCEPT !.op = "execute_transaction_batch", !.batch = b] : b \in Batches}

\* ExecutorBuilder::build up to the call of advance_blockhash(None), line 535.
Init ==
    /\ ctor \in {"new", "default"}
    /\ fork = GenesisFork(ctor)
    /\ clock = [tick_height |-> 0, last_blockhash |-> GenesisHash]
    /\ next_unique = 1
    /\ slot = 0
    /\ parent_slot = 0
    /\ rpc_client = DefaultBinding
    /\ rpc_requests = 0
    /\ lock = Main
    /\ alive = TRUE
    /\ pc = [t \in AllTasks |-> IF t = Main THEN "adv_begin" ELSE "idle"]
    /\ local = [t \in AllTasks |-> IF t = Main
                                   THEN [IdleLocal EXCEPT !.op = "advance_blockhash"]
                                   ELSE IdleLocal]
    /\ resp = [t \in AllTasks |-> NoReply]
    /\ budget = MaxRequests
    /\ now = 0
    /\ meta = NoMeta

Running(t, at) == alive /\ lock = t /\ pc[t] = at

\* A lock that is granted whoever holds it.
can_lock_unguarded(holder) == TRUE

\* lock().await: the tokio Mutex is granted only when nobody holds it.
can_lock(holder) == holder = Free

\* The handler returns: the reply is sent and the MutexGuard is dropped.
Return(t, reply) ==
    /\ resp' = [resp EXCEPT ![t] = reply]
    /\ pc' = [pc EXCEPT ![t] = IF t = Main THEN "built" ELSE "idle"]
    /\ lock' = Free

\* A panic in a handler: with panic=abort the process ends; with the default
\* unwinding the task ends, its MutexGuard is dropped and the server goes on.
Panic(t) ==
    /\ \/ /\ alive' = FALSE
          /\ UNCHANGED << lock, pc, resp >>
       \/ /\ alive' = alive
          /\ resp' = [resp EXCEPT ![t] = [NoReply EXCEPT !.outcome = "panic"]]
          /\ pc' = [pc EXCEPT ![t] = "idle"]
          /\ lock' = Free

\* A client sends a request; warp spawns a task that runs its handler.
RequestFrom(t, requests) ==
    /\ alive /\ t \in Tasks /\ pc[t] = "idle" /\ budget > 0
    /\ \E r \in requests : local' = [local EXCEPT ![t] = r]
    /\ pc' = [pc EXCEPT ![t] = "lock"]
    /\ resp' = [resp EXCEPT ![t] = NoReply]
    /\ budget' = budget - 1
    /\ UNCHANGED << fork, clock, next_unique, slot, parent_slot, rpc_client,
                    rpc_requests, lock, alive, ctor, meta, now >>

Request(t) == RequestFrom(t, Requests)

EntryPoint(op) ==
    CASE op = "advance_blockhash" -> "adv_begin"
      [] op = "execute_transaction_batch" -> "fetch1"
      [] OTHER -> "call"

\* context.lock().await
Acquire(t) ==
    /\ alive /\ t \in Tasks /\ pc[t] = "lock"
    /\ can_lock(lock)
    /\ lock' = t
    /\ pc' = [pc EXCEPT ![t] = EntryPoint(local[t].op)]
    /\ local' = [local EXCEPT ![t].fork0 = fork, ![t].rpc0 = rpc_requests]
    /\ UNCHANGED << fork, clock, next_unique, slot, parent_slot, rpc_client,
                    rpc_requests, alive, resp, budget, ctor, meta, now >>

\* handlers::latest_blockhash
latest_blockhash(t) ==
    /\ Running(t, "call") /\ local[t].op = "latest_blockhash"
    /\ Return(t, [NoReply EXCEPT !.outcome = "ok", !.hash = get_latest_blockhash(clock)])
    /\ UNCHANGED << fork, clock, next_unique, slot, parent_slot, rpc_client,
                    rpc_requests, alive, local, budget, ctor, meta, now >>

\* handlers::rent_exempt_balance
rent_exempt_balance(t) ==
    /\ Running(t, "call") /\ local[t].op = "rent_exempt_balance"
    /\ Return(t, [NoReply EXCEPT !.outcome = "ok",
                     !.balance = get_minimum_rent_exempt_balance(local[t].data_length)])
    /\ UNCHANGED << fork, clock, next_unique, slot, parent_slot, rpc_client,
                    rpc_requests, alive, local, budget, ctor, meta, now >>

\* A read that asks the remote ledger as well.
read_effect_fetching(f, c, binding, sent) ==
    [fork |-> f, clock |-> c, rpc_client |-> binding, rpc_requests |-> sent + 1]

\* What a read of the fork does to the Executor and the remote: nothing.
read_effect(f, c, binding, sent) ==
    [fork |-> f, clock |-> c, rpc_client |-> binding, rpc_requests |-> sent]

\* handlers::get_account
get_account_handler(t) ==
    /\ Running(t, "call") /\ local[t].op = "get_account"
    /\ LET e == read_effect(fork, clock, rpc_client, rpc_requests)
       IN  /\ fork' = e.fork
           /\ clock' = e.clock
           /\ rpc_client' = e.rpc_client
           /\ rpc_requests' = e.rpc_requests
    /\ Return(t, [NoReply EXCEPT !.outcome = "ok",
                     !.accounts = << get_account(fork, local[t].key) >>])
    /\ UNCHANGED << next_unique, slot, parent_slot, alive, local,
                    budget, ctor, meta, now >>

\* handlers::get_accounts
get_accounts_handler(t) ==
    /\ Running(t, "call") /\ local[t].op = "get_accounts"
    /\ LET e == read_effect(fork, clock, rpc_client, rpc_requests)
       IN  /\ fork' = e.fork
           /\ clock' = e.clock
           /\ rpc_client' = e.rpc_client
           /\ rpc_requests' = e.rpc_requests
    /\ Return(t, [NoReply EXCEPT !.outcome = "ok",
                     !.accounts = get_accounts(fork, local[t].keys)])
    /\ UNCHANGED << next_unique, slot, parent_slot, alive, local,
                    budget, ctor, meta, now >>

\* A client made for the new endpoint that keeps the commitment it had.
new_with_commitment_endpoint_only(current, endpoint, commitment) ==
    [endpoint |-> endpoint, commitment |-> current.commitment]

\* Executor::set_rpc_config, lines 98-103: RpcClient::new_with_commitment.
new_with_commitment(current, endpoint, commitment) ==
    [endpoint |-> endpoint, commitment |-> commitment]

\* handlers::set_rpc_config
set_rpc_config(t) ==
    /\ Running(t, "call") /\ local[t].op = "set_rpc_config"
    /\ rpc_client' = new_with_commitment(rpc_client, local[t].binding.endpoint,
                                         local[t].binding.commitment)
    /\ Return(t, [NoReply EXCEPT !.outcome = "ok"])
    /\ UNCHANGED << fork, clock, next_unique, slot, parent_slot,
                    rpc_requests, alive, local, budget, ctor, meta, now >>

\* ------------------------------------------------------------------ advance_blockhash
\* The engine's tick counter is capped so that a loop that never ends stays finite.
MaxTickHeight == (MaxRequests * MaxSlot + 3) * TicksPerSlot

\* lines 107-111
adv_begin(t) ==
    /\ Running(t, "adv_begin")
    /\ local' = [local EXCEPT ![t].distance_left = parent_distance(slot, parent_slot),
                              ![t].before = clock.last_blockhash,
                              ![t].minted = NoHash,
                              ![t].steps = 0,
                              ![t].ticks = 0]
    /\ pc' = [pc EXCEPT ![t] = "adv_for"]
    /\ UNCHANGED << fork, clock, next_unique, slot, parent_slot, rpc_client,
                    rpc_requests, lock, alive, resp, budget, ctor, meta, now >>

\* lines 113-118: one more step of the for loop; the candidate is chosen.
adv_for(t) ==
    /\ Running(t, "adv_for")
    /\ local[t].distance_left > 0
    /\ LET caller == takes_caller_hash(local[t].hash, clock.last_blockhash)
       IN  /\ local' = [local EXCEPT
                           ![t].last_snapshot = clock.last_blockhash,
                           ![t].new_hash = IF caller THEN local[t].hash ELSE next_unique,
                           ![t].minted = IF caller THEN @ ELSE next_unique,
                           ![t].steps = @ + 1]
           /\ next_unique' = IF caller THEN next_unique ELSE next_unique + 1
    /\ pc' = [pc EXCEPT ![t] = "adv_while"]
    /\ UNCHANGED << fork, clock, slot, parent_slot, rpc_client,
                    rpc_requests, lock, alive, resp, budget, ctor, meta, now >>

\* lines 120-122: the while condition holds, one tick is registered.
adv_tick(t) ==
    /\ Running(t, "adv_while")
    /\ while_condition(clock, local[t].last_snapshot)
    /\ clock.tick_height < MaxTickHeight
    /\ clock' = register_tick(clock, local[t].new_hash)
    /\ local' = [local EXCEPT ![t].ticks = @ + 1]
    /\ UNCHANGED << fork, next_unique, slot, parent_slot, rpc_client,
                    rpc_requests, lock, alive, pc, resp, budget, ctor, meta, now >>

\* line 120: the while condition fails, the for loop goes on.
adv_next(t) ==
    /\ Running(t, "adv_while")
    /\ ~while_condition(clock, local[t].last_snapshot)
    /\ local' = [local EXCEPT ![t].distance_left = @ - 1]
    /\ pc' = [pc EXCEPT ![t] = "adv_for"]
    /\ UNCHANGED << fork, clock, next_unique, slot, parent_slot, rpc_client,
                    rpc_requests, lock, alive, resp, budget, ctor, meta, now >>

\* line 124, and the handler's reply (or build's return for Main).
adv_return(t) ==
    /\ Running(t, "adv_for")
    /\ local[t].distance_left = 0
    /\ Return(t, [NoReply EXCEPT !.outcome = "ok", !.hash = get_latest_blockhash(clock)])
    /\ UNCHANGED << fork, clock, next_unique, slot, parent_slot, rpc_client,
                    rpc_requests, alive, local, budget, ctor, meta, now >>

\* ------------------------------------------------------------------ execute_transaction_batch
\* A first fetch that stores what it got at once.
fork_after_first_fetch_stored(f, account_infos) == store_all(f, account_infos, 1)

\* lines 261-272: the accounts of the first multi-get are kept in a local
\* vector; the bank is not written before line 303.
fork_after_first_fetch(f, account_infos) == f

\* lines 253-272: the keys of the batch and the first multi-get.
fetch1(t) ==
    /\ Running(t, "fetch1")
    /\ LET keys == batch_account_keys(local[t].batch)
           answer == RemoteLedger(rpc_client)
       IN  /\ local' = [local EXCEPT ![t].account_keys = keys,
                                     ![t].account_infos = filter_map_some(answer, keys, 1),
                                     ![t].bindings = Append(@, rpc_client)]
           /\ fork' = fork_after_first_fetch(fork, filter_map_some(answer, keys, 1))
    /\ rpc_requests' = rpc_requests + 1
    /\ pc' = [pc EXCEPT ![t] = "fetch2"]
    /\ UNCHANGED << clock, next_unique, slot, parent_slot, rpc_client,
                    lock, alive, resp, budget, ctor, meta, now >>

\* lines 274-300: the program-data keys and the second multi-get.
fetch2(t) ==
    /\ Running(t, "fetch2")
    /\ LET keys == program_data_account_keys(local[t].account_infos)
           answer == RemoteLedger(rpc_client)
       IN  local' = [local EXCEPT ![t].program_data_account_keys = keys,
                                  ![t].account_infos_2 = filter_map_some(answer, keys, 1),
                                  ![t].bindings = Append(@, rpc_client)]
    /\ rpc_requests' = rpc_requests + 1
    /\ pc' = [pc EXCEPT ![t] = "merge"]
    /\ UNCHANGED << fork, clock, next_unique, slot, parent_slot, rpc_client,
                    lock, alive, resp, budget, ctor, meta, now >>

\* lines 264 and 292: the multi-get returned an error and unwrap() panics.
fetch_fail(t) ==
    /\ alive /\ lock = t /\ pc[t] \in {"fetch1", "fetch2"}
    /\ rpc_requests' = rpc_requests + 1
    /\ Panic(t)
    /\ UNCHANGED << fork, clock, next_unique, slot, parent_slot, rpc_client,
                    local, budget, ctor, meta, now >>

\* lines 302-314
merge(t) ==
    /\ Running(t, "merge")
    /\ fork' = merge_fetched(fork, local[t].account_infos, local[t].account_infos_2)
    /\ local' = [local EXCEPT ![t].merged = fork', ![t].idx = 1]
    /\ pc' = [pc EXCEPT ![t] = "exec"]
    /\ UNCHANGED << clock, next_unique, slot, parent_slot, rpc_client,
                    rpc_requests, lock, alive, resp, budget, ctor, meta, now >>

\* line 318 with lines 140-245: the next transaction passes the size check and
\* is executed.
exec_tx(t) ==
    /\ Running(t, "exec")
    /\ local[t].idx <= Len(local[t].batch)
    /\ LET tx == local[t].batch[local[t].idx]
           seen == transaction_fork(fork, local[t].merged)
       IN  /\ ~is_too_large(tx)
           /\ ~fee_is_none(tx)
           /\ \E unix_time \in now..MaxNow :
                 LET r == execute_transaction_internal(seen, tx, slot, unix_time)
                 IN  /\ now' = unix_time
                     /\ fork' = r.fork
                     /\ local' = [local EXCEPT
                                     ![t].results = collect_result(@, r.result),
                                     ![t].trace = Append(@, [tx |-> tx.id, seen |-> seen,
                                                              left |-> r.fork]),
                                     ![t].idx = @ + 1]
    /\ UNCHANGED << clock, next_unique, slot, parent_slot, rpc_client,
                    rpc_requests, lock, alive, pc, resp, budget, ctor, meta >>

\* lines 131-139: the next transaction is too large and the call panics; or
\* lines 157-188: the engine has refused it for its blockhash, leaving the
\* fork as it is, and the call panics for want of a fee.
exec_panic(t) ==
    /\ Running(t, "exec")
    /\ local[t].idx <= Len(local[t].batch)
    /\ \/ is_too_large(local[t].batch[local[t].idx])
       \/ fee_is_none(local[t].batch[local[t].idx])
    /\ Panic(t)
    /\ UNCHANGED << fork, clock, next_unique, slot, parent_slot, rpc_client,
                    rpc_requests, local, budget, ctor, meta, now >>

\* line 319 and the handler's reply.
batch_return(t) ==
    /\ Running(t, "exec")
    /\ local[t].idx > Len(local[t].batch)
    /\ alive' = alive
    /\ Return(t, [NoReply EXCEPT !.outcome = "ok", !.results = local[t].results])
    /\ UNCHANGED << fork, clock, next_unique, slot, parent_slot, rpc_client,
                    rpc_requests, local, budget, ctor, meta, now >>

Next ==
    \E t \in AllTasks :
          \/ Request(t)
          \/ Acquire(t)
          \/ latest_blockhash(t)
          \/ rent_exempt_balance(t)
          \/ get_account_handler(t)
          \/ get_accounts_handler(t)
          \/ set_rpc_config(t)
          \/ adv_begin(t)
          \/ adv_for(t)
          \/ adv_tick(t)
          \/ adv_next(t)
          \/ adv_return(t)
          \/ fetch1(t)
          \/ fetch2(t)
          \/ fetch_fail(t)
          \/ merge(t)
          \/ exec_tx(t)
          \/ exec_panic(t)
          \/ batch_return(t)

Spec == Init /\ [][Next]_vars

\* ------------------------------------------------------------------ the clock alone
\* advance_blockhash as a function of the bank it is given: the bank's slot and
\* parent slot are inputs, the requests are those of the clock.
ClockRequests == {r \in Requests : r.op \in {"latest_blockhash", "advance_blockhash"}}

InitClock ==
    /\ ctor = "new"
    /\ fork = GenesisFork(ctor)
    /\ slot \in 0..MaxSlot
    /\ parent_slot \in 0..MaxSlot
    /\ (slot = 0 /\ parent_slot = 0) \/ parent_slot < slot
    /\ clock = [tick_height |-> TicksPerSlot, last_blockhash |-> 1]
    /\ next_unique = 2
    /\ rpc_client = DefaultBinding
    /\ rpc_requests = 0
    /\ lock = Free
    /\ alive = TRUE
    /\ pc = [t \in AllTasks |-> IF t = Main THEN "built" ELSE "idle"]
    /\ local = [t \in AllTasks |-> IdleLocal]
    /\ resp = [t \in AllTasks |-> NoReply]
    /\ budget = MaxRequests
    /\ now = 0
    /\ meta = NoMeta

ClockRequest(t) == RequestFrom(t, ClockRequests)

NextClock ==
    \E t \in Tasks :
          \/ ClockRequest(t)
          \/ Acquire(t)
          \/ latest_blockhash(t)
          \/ adv_begin(t)
          \/ adv_for(t)
          \/ adv_tick(t)
          \/ adv_next(t)
          \/ adv_return(t)

SpecClock == InitClock /\ [][NextClock]_vars

\* ------------------------------------------------------------------ the inner instructions alone
\* What the engine can hand back for one transaction: whether it was executed
\* and, per top-level instruction, the instructions it invoked (none, one or
\* two). The transaction has up to MaxInstructions instructions; the
\* sub-traces that are not empty lie among its first three and last two.
SubTraces == { <<"invoke">>, <<"invoke", "invoke">> }
InstructionCounts == {0, 1, 2, 3, MaxInstructions}
TracedPositions == {1, 2, 3, MaxInstructions - 1, MaxInstructions}

EngineTraces ==
    UNION { UNION { { [i \in 1..n |-> IF i \in P THEN f[i] ELSE <<>>] :
                         f \in [P -> SubTraces] } :
                    P \in SUBSET (TracedPositions \cap 1..n) } :
            n \in InstructionCounts }

InitTrace ==
    /\ ctor = "new"
    /\ fork = GenesisFork(ctor)
    /\ slot = 0
    /\ parent_slot = 0
    /\ clock = [tick_height |-> TicksPerSlot, last_blockhash |-> 1]
    /\ next_unique = 2
    /\ rpc_client = DefaultBinding
    /\ rpc_requests = 0
    /\ lock = Free
    /\ alive = TRUE
    /\ pc = [t \in AllTasks |-> IF t = Main THEN "built" ELSE "idle"]
    /\ local = [t \in AllTasks |-> IdleLocal]
    /\ resp = [t \in AllTasks |-> NoReply]
    /\ budget = 0
    /\ now = 0
    /\ \E executed \in BOOLEAN : \E traces \in EngineTraces :
          meta = [phase |-> "executed", executed |-> executed,
                  traces |-> IF executed THEN traces ELSE <<>>,
                  inner_instructions |-> NoInnerInstructions]

\* lines 190-206 on the engine's answer.
encode_inner_instructions ==
    /\ meta.phase = "executed"
    /\ meta' = [meta EXCEPT !.phase = "encoded",
                            !.inner_instructions =
                                inner_instructions(meta.executed, meta.traces)]
    /\ UNCHANGED << fork, clock, next_unique, slot, parent_slot, rpc_client,
                    rpc_requests, lock, alive, pc, local, resp, budget, ctor, now >>

NextTrace == encode_inner_instructions

SpecTrace == InitTrace /\ [][NextTrace]_vars

\* ------------------------------------------------------------------ properties
TxById(id) == CHOOSE tx \in TxPool : tx.id = id

Returned(t, op) == local[t].op = op /\ resp[t].outcome = "ok"

InBatch(t) ==
    /\ local[t].op = "execute_transaction_batch"
    /\ pc[t] \in {"fetch1", "fetch2", "merge", "exec"} \/ resp[t].outcome # "none"

\* C1: a batch call that returns yields one result per transaction, the i-th
\* being the outcome of the i-th transaction on the fork it was run on, whether
\* it succeeded, failed or was rejected before execution.
C1_OrderPreserved ==
    \A t \in Tasks :
        Returned(t, "execute_transaction_batch") =>
            /\ Len(resp[t].results) = Len(local[t].batch)
            /\ \A i \in 1..Len(local[t].batch) :
                  /\ resp[t].results[i].tx = local[t].batch[i].id
                  /\ resp[t].results[i] =
                        execute_transaction_internal(local[t].trace[i].seen,
                                                     local[t].batch[i], slot,
                                                     resp[t].results[i].block_time).result

\* A returned batch of two whose first transaction was rejected before
\* execution and whose second succeeded.
C1_Witness ==
    \E t \in Tasks :
        /\ Returned(t, "execute_transaction_batch")
        /\ Len(resp[t].results) = 2
        /\ ~resp[t].results[1].executed
        /\ resp[t].results[2].status = "Ok"

\* C2: the transactions of a batch are submitted in input order, the first on
\* the fork the merge left and each later one on the fork its predecessor left,
\* and between two of them the fork is what the predecessor left.
C2_SequentialVisibility ==
    \A t \in Tasks :
        InBatch(t) =>
            LET tr == local[t].trace
            IN  /\ Len(tr) <= Len(local[t].batch)
                /\ \A i \in 1..Len(tr) :
                      /\ tr[i].tx = local[t].batch[i].id
                      /\ tr[i].seen = IF i = 1 THEN local[t].merged ELSE tr[i - 1].left
                /\ (pc[t] = "exec" /\ Len(tr) > 0) => fork = tr[Len(tr)].left

\* The second transaction of a batch ran on a fork that the first one, which
\* failed, had changed.
C2_Witness ==
    \E t \in Tasks :
        /\ InBatch(t)
        /\ Len(local[t].trace) = 2
        /\ local[t].results[1].status # "Ok"
        /\ local[t].trace[1].left # local[t].trace[1].seen
        /\ local[t].trace[2].seen = local[t].trace[1].left

\* C3: a get_account or get_accounts step leaves the fork, the clock and the
\* binding as they were, sends nothing to the remote ledger, and replies with
\* one entry per key, None exactly where the fork has no account.
C3_ReadsNeverMutate ==
    [][\A t \in Tasks :
          (get_account_handler(t) \/ get_accounts_handler(t)) =>
              /\ fork' = fork
              /\ clock' = clock
              /\ rpc_client' = rpc_client
              /\ rpc_requests' = rpc_requests
              /\ LET ks == IF local[t].op = "get_account"
                           THEN << local[t].key >> ELSE local[t].keys
                 IN  /\ Len(resp'[t].accounts) = Len(ks)
                     /\ \A i \in 1..Len(ks) :
                           resp'[t].accounts[i] =
                              IF fork[ks[i]].lamports = 0 THEN None ELSE fork[ks[i]]
      ]_vars

\* A get_accounts reply with None for the missing key and the account of the
\* key an earlier batch fetched.
C3_Witness ==
    \E t \in Tasks :
        /\ Returned(t, "get_accounts")
        /\ resp[t].accounts[1] = None
        /\ resp[t].accounts[2] # None

\* C4: the token advance_blockhash returns differs from the token that was the
\* latest when the call began.
C4_AdvanceChangesToken ==
    \A t \in AllTasks :
        Returned(t, "advance_blockhash") => resp[t].hash # local[t].before

\* An advance called with the current token has returned, and so has one
\* called with a token that was the latest earlier on.
C4_Witness ==
    /\ \E t \in Tasks :
          /\ Returned(t, "advance_blockhash")
          /\ local[t].hash = local[t].before
    /\ \E t \in Tasks :
          /\ Returned(t, "advance_blockhash")
          /\ local[t].hash # local[t].before
          /\ local[t].hash \in {GenesisHash, 1}

Distance == parent_distance(slot, parent_slot)

CallerTokenDiffers(t) == local[t].hash # NoHash /\ local[t].hash # local[t].before

FreshlyMinted(t) == local[t].minted # NoHash /\ resp[t].hash = local[t].minted

Merged(t) ==
    /\ local[t].op = "execute_transaction_batch"
    /\ pc[t] = "exec"
    /\ local[t].idx = 1

Fetched(t) == local[t].account_infos \o local[t].account_infos_2

FetchedKeys(t) == {Fetched(t)[i][1] : i \in 1..Len(Fetched(t))}

AskedKeys(t) ==
    {local[t].account_keys[i] : i \in 1..Len(local[t].account_keys)}
    \cup {local[t].program_data_account_keys[i] :
             i \in 1..Len(local[t].program_data_account_keys)}

\* C6: after the merge every key either multi-get returned an account for holds
\* that account, whatever the fork held for it before.
C6_RemoteWins ==
    \A t \in Tasks :
        Merged(t) =>
            \A i \in 1..Len(Fetched(t)) :
                /\ fork[Fetched(t)[i][1]] = Fetched(t)[i][2]
                /\ Fetched(t)[i][2] = RemoteLedger(rpc_client)[Fetched(t)[i][1]]

\* The merge has replaced the payer's account, changed by an earlier batch,
\* and the token program installed at genesis by the remote's accounts.
C6_Witness ==
    \E t \in Tasks :
        /\ Merged(t)
        /\ {"payer", "token"} \subseteq FetchedKeys(t)
        /\ IsSome(local[t].fork0["payer"])
        /\ local[t].fork0["payer"] # fork["payer"]
        /\ local[t].fork0["token"].data = SPL_TOKEN
        /\ fork["token"] = RemoteToken

\* C7: the merge leaves the fork's entry of every asked key the remote returned
\* no account for as it was before the call, and the call goes on to execute.
C7_AbsentKeysDropped ==
    \A t \in Tasks :
        Merged(t) =>
            \A k \in AskedKeys(t) :
                ~IsSome(RemoteLedger(rpc_client)[k]) =>
                    /\ k \notin FetchedKeys(t)
                    /\ fork[k] = local[t].fork0[k]

\* After a merge, an asked key the remote does not hold still holds the
\* account an earlier batch created, and another one is still absent.
C7_Witness ==
    \E t \in Tasks :
        /\ Merged(t)
        /\ {"fresh", "system_pda"} \subseteq AskedKeys(t)
        /\ IsSome(fork["fresh"])
        /\ fork["fresh"] = local[t].fork0["fresh"]
        /\ ~IsSome(fork["system_pda"])

Busy(t) == pc[t] \notin {"idle", "lock", "built"}

\* A batch call that panicked after the merge or one of its transactions had
\* changed the fork.
PartiallyApplied(t) ==
    /\ local[t].op = "execute_transaction_batch"
    /\ resp[t].outcome = "panic"
    /\ local[t].merged # EmptyAccounts
    /\ \/ local[t].merged # local[t].fork0
       \/ \E i \in 1..Len(local[t].trace) : local[t].trace[i].left # local[t].trace[i].seen

\* At most one task is inside an Executor operation.
MutualExclusion == \A t, u \in AllTasks : (Busy(t) /\ Busy(u)) => t = u

\* C8: at most one operation is in progress at a time, and whenever the lock is
\* free for the next request there is no batch of which only a part has been
\* applied to the fork.
C8_BatchAtomic ==
    /\ MutualExclusion
    /\ (alive /\ lock = Free) => \A t \in Tasks : ~PartiallyApplied(t)

\* C9: a transaction the engine fails or refuses does not end the call: the
\* step that takes it up leaves the process alive and the call running, appends
\* a result whose status is the engine's cause and moves on to the next
\* transaction; a call in its execution phase panics only on a transaction
\* above the size ceiling; and the call returns one result per transaction,
\* releasing the lock with the process alive.
C9_LedgerFailuresAreResults ==
    [][\A t \in Tasks :
          /\ exec_tx(t) =>
                LET tx == local[t].batch[local[t].idx]
                    outcome == load_execute_and_commit_transactions(fork, tx)
                    after == local'[t].results
                IN  /\ alive' /\ lock' = t /\ pc'[t] = "exec"
                    /\ Len(after) = Len(local[t].results) + 1
                    /\ after[Len(after)].status = outcome.status
                    /\ after[Len(after)].executed = outcome.executed
                    /\ local'[t].idx = local[t].idx + 1
          /\ (Running(t, "exec") /\ (~alive' \/ resp'[t].outcome = "panic")) =>
                local[t].batch[local[t].idx].size > PACKET_DATA_SIZE
          /\ batch_return(t) =>
                /\ alive' /\ lock' = Free /\ pc'[t] = "idle"
                /\ resp'[t].outcome = "ok"
                /\ Len(resp'[t].results) = Len(local[t].batch)
      ]_vars

\* C10: a batch with a transaction above the size ceiling at any position
\* returns no result list, and no result is ever produced for a transaction
\* above the ceiling.
C10_OversizeAbortsCall ==
    \A t \in Tasks :
        local[t].op = "execute_transaction_batch" =>
            /\ (\E i \in 1..Len(local[t].batch) :
                   local[t].batch[i].size > PACKET_DATA_SIZE)
                  => (resp[t].outcome # "ok" /\ resp[t].results = <<>>)
            /\ \A i \in 1..Len(local[t].results) :
                  TxById(local[t].results[i].tx).size <= PACKET_DATA_SIZE

\* A call has panicked on the oversize second transaction of its batch, after
\* the first one had been executed.
C10_Witness ==
    \E t \in Tasks :
        /\ local[t].op = "execute_transaction_batch"
        /\ resp[t].outcome = "panic"
        /\ Len(local[t].batch) = 2
        /\ local[t].idx = 2
        /\ local[t].batch[2].size > PACKET_DATA_SIZE
        /\ Len(local[t].results) = 1

\* Task u got the lock after the batch call of task t had sent its multi-gets.
Later(u, t) == u # t /\ local[u].op # "none" /\ pc[u] # "lock"
               /\ local[u].rpc0 > local[t].rpc0

RemoteAbsent(k) == \A b \in Bindings : ~IsSome(RemoteLedger(b)[k])

\* The i-th executed transaction of task t's batch created an account at a key
\* no remote ledger holds.
Created(t, i) ==
    /\ local[t].op = "execute_transaction_batch"
    /\ i \in 1..Len(local[t].trace)
    /\ TxById(local[t].trace[i].tx).kind = "create"
    /\ ~IsSome(local[t].trace[i].seen[TxById(local[t].trace[i].tx).to])
    /\ IsSome(local[t].trace[i].left[TxById(local[t].trace[i].tx).to])
    /\ RemoteAbsent(TxById(local[t].trace[i].tx).to)

SameAccountAs(a, tx) ==
    IsSome(a) /\ a.data.len = tx.space /\ a.owner = SYSTEM_PID

\* C11: an account created by a successful transaction at a key the remote
\* reports absent is still in the fork, with its data length and owner, in
\* every later get_account and when every later batch starts to execute, and
\* every later creation at that key fails with AccountAlreadyInUse.
C11_CreatedAccountsPersist ==
    \A t \in Tasks : \A i \in 1..Len(local[t].trace) :
        Created(t, i) =>
            LET tx == TxById(local[t].trace[i].tx)
            IN  /\ SameAccountAs(get_account(fork, tx.to), tx)
                /\ \A u \in Tasks :
                      (Later(u, t) /\ Returned(u, "get_account") /\ local[u].key = tx.to)
                          => SameAccountAs(resp[u].accounts[1], tx)
                /\ \A u \in Tasks :
                      (Later(u, t) /\ local[u].op = "execute_transaction_batch"
                          /\ local[u].merged # EmptyAccounts)
                          => SameAccountAs(local[u].merged[tx.to], tx)
                /\ \A u \in Tasks : \A j \in 1..Len(local[u].trace) :
                      (/\ Later(u, t) \/ (u = t /\ j > i)
                       /\ local[u].op = "execute_transaction_batch"
                       /\ TxById(local[u].trace[j].tx).kind = "create"
                       /\ TxById(local[u].trace[j].tx).to = tx.to
                       /\ j <= Len(local[u].results))
                          => local[u].results[j].status = "AccountAlreadyInUse"

\* One task's batch created the account, and a later batch of another task that
\* holds the same creation has returned, as has a later get_account of the key.
C11_Witness ==
    \E t \in Tasks : \E u \in Tasks :
        /\ Created(t, 1)
        /\ Later(u, t)
        /\ Returned(u, "execute_transaction_batch")
        /\ Len(local[u].trace) >= 1
        /\ local[u].trace[1].tx = local[t].trace[1].tx
        /\ resp[u].results[1].status = "AccountAlreadyInUse"

\* The keys of the faucet and of the embedded programs.
WellKnownKeys ==
    {"faucet", SPL_ASSOCIATED_TOKEN_PID, SPL_MEMO1_PID, SPL_MEMO3_PID, SPL_TOKEN_PID}

\* C12: in every reachable state each of the faucet and program accounts that
\* genesis installed is still in the fork with the owner, data, executable
\* flag and rent epoch of genesis, and with no more than its genesis balance.
C12_GenesisAccountsPersist ==
    \A k \in WellKnownKeys :
        LET g == GenesisFork(ctor)[k]
        IN  IsSome(g) =>
               /\ IsSome(fork[k])
               /\ fork[k].owner = g.owner
               /\ fork[k].data = g.data
               /\ fork[k].executable = g.executable
               /\ fork[k].rent_epoch = g.rent_epoch
               /\ fork[k].lamports <= g.lamports

\* C13: set_rpc_config makes the requested (endpoint, commitment) pair the
\* binding and leaves the fork, the clock and the count of remote requests as
\* they were; no other step changes the binding; and every multi-get of a
\* batch is sent with the binding of that moment, so with the pair of the last
\* set_rpc_config before the batch and never with a replaced one.
C13_BindingReplaced ==
    [][/\ \A t \in Tasks :
             set_rpc_config(t) =>
                 /\ rpc_client' = local[t].binding
                 /\ fork' = fork /\ clock' = clock /\ rpc_requests' = rpc_requests
       /\ (\A t \in Tasks : ~set_rpc_config(t)) => rpc_client' = rpc_client
       /\ \A t \in Tasks :
             Len(local'[t].bindings) > Len(local[t].bindings) =>
                 /\ local'[t].bindings[Len(local'[t].bindings)] = rpc_client
                 /\ rpc_client' = rpc_client
      ]_vars

\* A batch has sent both of its multi-gets with a pair that only a
\* set_rpc_config can have installed.
C13_Witness ==
    \E t \in Tasks : \E u \in Tasks :
        /\ Returned(t, "set_rpc_config")
        /\ local[t].binding # DefaultBinding
        /\ local[u].op = "execute_transaction_batch"
        /\ Len(local[u].bindings) = 2
        /\ local[u].bindings[1] = local[t].binding
        /\ local[u].bindings[2] = local[t].binding

\* C14: build makes one advance of the clock, of one step, before any request
\* is served; the token the Executor is returned with, and reports until the
\* clock is advanced again, is not the genesis token;
\* and the first advance_blockhash(None) on it returns a token that differs
\* from the one it was returned with.
C14_BuildAdvancesOnce ==
    /\ pc[Main] # "built" => \A t \in Tasks : pc[t] \in {"idle", "lock"}
    /\ pc[Main] = "built" =>
          /\ local[Main].steps = 1
          /\ resp[Main].outcome = "ok"
          /\ resp[Main].hash # GenesisHash
          /\ local[Main].ticks = TicksPerSlot
          /\ clock.tick_height = local[Main].ticks
                => get_latest_blockhash(clock) = resp[Main].hash
          /\ \A t \in Tasks :
                (/\ Returned(t, "latest_blockhash")
                 /\ clock.tick_height = local[Main].ticks)
                    => resp[t].hash # GenesisHash
          /\ \A t \in Tasks :
                (/\ Returned(t, "advance_blockhash")
                 /\ local[t].hash = NoHash
                 /\ local[t].before = resp[Main].hash)
                    => resp[t].hash # resp[Main].hash

\* The first advance_blockhash(None) after build has returned.
C14_Witness ==
    \E t \in Tasks :
        /\ pc[Main] = "built"
        /\ Returned(t, "advance_blockhash")
        /\ local[t].hash = NoHash
        /\ local[t].before = resp[Main].hash
        /\ local[t].steps = 1

\* C15: on every construction path the Executor that build returns holds, as
\* long as no batch has touched its fork, an account at the faucet key with
\* 1 << 48 lamports owned by the system program.
C15_FaucetFunded ==
    (pc[Main] = "built" /\ rpc_requests = 0) =>
        /\ IsSome(get_account(fork, "faucet"))
        /\ fork["faucet"].lamports = FaucetLamports
        /\ fork["faucet"].owner = SYSTEM_PID

\* C16: two batch calls that ran the same batch with the same binding on the
\* fork as build made it return the same results in every field.
C16_Deterministic ==
    \A t \in Tasks : \A u \in Tasks :
        (/\ Returned(t, "execute_transaction_batch")
         /\ Returned(u, "execute_transaction_batch")
         /\ local[t].batch = local[u].batch
         /\ local[t].bindings = local[u].bindings
         /\ local[t].fork0 = GenesisFork(ctor)
         /\ local[u].fork0 = GenesisFork(ctor))
            => resp[t].results = resp[u].results

\* The remote ledger as the first and the second multi-get of task t's batch
\* call saw it.
Remote1(t) == RemoteLedger(local[t].bindings[1])
Remote2(t) == RemoteLedger(local[t].bindings[2])

\* The result of the i-th transaction of task t's batch says that the program
\* data of its program is missing.
MissingProgramData(t, i) ==
    i <= Len(local[t].results) /\ local[t].results[i].status = "MissingProgramData"

\* The merge of task t's batch call has been done.
AfterMerge(t) ==
    local[t].op = "execute_transaction_batch" /\ local[t].merged # EmptyAccounts

account_keys_set(t) == {local[t].account_keys[i] : i \in 1..Len(local[t].account_keys)}

\* C17 as claimed: once the fetched accounts are merged, the program-data
\* account of every upgradeable program a transaction of the batch invokes is in
\* the fork, and no transaction fails for missing program data.
C17_DependencyClosure ==
    \A t \in Tasks :
        AfterMerge(t) =>
            \A i \in 1..Len(local[t].batch) :
                LET program == local[t].batch[i].program
                IN  (/\ IsSome(local[t].merged[program])
                     /\ local[t].merged[program].executable
                     /\ local[t].merged[program].owner = BPF_LOADER_UPGRADEABLE_PID)
                        => /\ IsSome(local[t].merged[find_program_address(program)])
                           /\ ~MissingProgramData(t, i)

\* C17, amended: the second multi-get asks for the program-data key of exactly
\* the executable accounts the first multi-get returned; when the remote holds
\* an account at such a key it is in the fork after the merge, with the
\* remote's value, and no transaction invoking that program fails for missing
\* program data.
C17_ClosureOfFetchedPrograms ==
    \A t \in Tasks :
        AfterMerge(t) =>
            /\ \A k \in Keys :
                  (\E j \in 1..Len(local[t].program_data_account_keys) :
                       local[t].program_data_account_keys[j] = k)
                  <=> (\E a \in account_keys_set(t) :
                          /\ IsSome(Remote1(t)[a]) /\ Remote1(t)[a].executable
                          /\ find_program_address(a) = k)
            /\ \A i \in 1..Len(local[t].batch) :
                  LET program == local[t].batch[i].program
                      data == find_program_address(program)
                  IN  (/\ IsSome(Remote1(t)[program]) /\ Remote1(t)[program].executable
                       /\ IsSome(Remote2(t)[data]))
                          => /\ local[t].merged[data] = Remote2(t)[data]
                             /\ ~MissingProgramData(t, i)

\* A batch that invokes an upgradeable program the remote returned, with its
\* program data, has returned with that transaction executed.
C17_Witness ==
    \E t \in Tasks :
        /\ Returned(t, "execute_transaction_batch")
        /\ AfterMerge(t)
        /\ Len(resp[t].results) >= 1
        /\ local[t].batch[1].program = "prog"
        /\ local[t].merged["progdata"] = RemoteProgramData
        /\ resp[t].results[1].status = "Ok"

\* C18: in a batch call both multi-gets and the merge are done before the
\* first transaction is executed, and no multi-get is sent afterwards; the
\* first transaction runs on the fork the merge left, in which every key of
\* any transaction of the batch that the remote holds has the remote's value.
C18_FetchBeforeExecute ==
    \A t \in Tasks :
        (local[t].op = "execute_transaction_batch" /\ Len(local[t].trace) >= 1) =>
            /\ Len(local[t].bindings) = 2
            /\ AfterMerge(t)
            /\ local[t].trace[1].seen = local[t].merged
            /\ lock = t => rpc_requests = local[t].rpc0 + 2
            /\ \A i \in 1..Len(local[t].batch) :
                  \A k \in account_keys(local[t].batch[i]) :
                      IsSome(Remote1(t)[k]) => local[t].trace[1].seen[k] = Remote1(t)[k]

\* The first of two transactions has been executed, the second names a key the
\* first does not, and the remote holds an account at that key.
C18_Witness ==
    \E t \in Tasks :
        /\ Running(t, "exec")
        /\ Len(local[t].batch) = 2
        /\ Len(local[t].trace) = 1
        /\ \E k \in account_keys(local[t].batch[2]) \ account_keys(local[t].batch[1]) :
              /\ IsSome(Remote1(t)[k])
              /\ local[t].fork0[k] # Remote1(t)[k]

\* Task t's batch call, which holds a transaction above the size ceiling, has
\* panicked.
OversizeAbort(t) ==
    /\ local[t].op = "execute_transaction_batch"
    /\ \E i \in 1..Len(local[t].batch) : local[t].batch[i].size > PACKET_DATA_SIZE
    /\ AfterMerge(t)
    /\ resp[t].outcome = "panic" \/ (~alive /\ lock = t)

\* C19: when a batch call aborts on a transaction above the size ceiling, the
\* fork is as it was when the call began: no fetched account has been merged
\* and no transaction of the batch has been applied.
C19_OversizeIsPrecondition ==
    \A t \in Tasks :
        OversizeAbort(t) =>
            /\ local[t].merged = local[t].fork0
            /\ \A i \in 1..Len(local[t].trace) :
                  local[t].trace[i].left = local[t].trace[i].seen

\* C20: a batch call whose first or second multi-get fails panics without a
\* result list; at that point the fork is the fork the call began with (the
\* accounts of a first multi-get that succeeded are not in it), no transaction
\* has been executed, and no step of a batch call changes the clock.
C20_FetchFailureLeavesState ==
    [][\A t \in Tasks :
          /\ (lock = t /\ local[t].op = "execute_transaction_batch") => clock' = clock
          /\ fetch_fail(t) =>
                /\ fork' = local[t].fork0
                /\ local[t].merged = EmptyAccounts
                /\ local[t].trace = <<>>
                /\ local[t].results = <<>>
                /\ resp'[t].outcome # "ok"
                /\ resp'[t].results = <<>>
      ]_vars

\* The second multi-get of a batch call failed after the first one had
\* returned an account the fork does not hold.
C20_Witness ==
    \E t \in Tasks :
        /\ local[t].op = "execute_transaction_batch"
        /\ resp[t].outcome = "panic"
        /\ Len(local[t].bindings) = 1
        /\ \E j \in 1..Len(local[t].account_infos) :
              local[t].fork0[local[t].account_infos[j][1]] # local[t].account_infos[j][2]

\* C21: the fee in the result of every transaction of a batch is what the
\* engine charged its fee payer for it, which is nothing for a transaction
\* refused before execution.
C21_FeeIsFeeCharged ==
    \A t \in Tasks :
        local[t].op = "execute_transaction_batch" =>
            \A i \in 1..Len(local[t].results) :
                i <= Len(local[t].trace) =>
                    local[t].results[i].fee =
                        load_execute_and_commit_transactions(
                            local[t].trace[i].seen, TxById(local[t].trace[i].tx)).charged

\* The positions, counted from 0, of the sub-traces that are not empty.
TracedIndices == {i - 1 : i \in {j \in 1..Len(meta.traces) : meta.traces[j] # <<>>}}

\* C22: the inner instructions of a result are exactly the engine's non-empty
\* sub-traces, in the engine's order, each with the position of its top-level
\* instruction as index; a transaction that was not executed has none at all.
C22_TracesTaggedByPosition ==
    meta.phase = "encoded" =>
        IF ~meta.executed
        THEN meta.inner_instructions = NoInnerInstructions
        ELSE LET inner == meta.inner_instructions
             IN  /\ Len(inner) = Cardinality(TracedIndices)
                 /\ \A j \in 1..Len(inner) :
                       /\ inner[j].index \in TracedIndices
                       /\ inner[j].instructions = meta.traces[inner[j].index + 1]
                 /\ \A j \in 1..Len(inner) : \A k \in 1..Len(inner) :
                       j < k => inner[j].index < inner[k].index

\* The program table of programs.rs: each key with its embedded bytecode.
ProgramTable ==
    { <<SPL_ASSOCIATED_TOKEN_PID, SPL_ASSOCIATED_TOKEN>>, <<SPL_MEMO1_PID, SPL_MEMO1>>,
      <<SPL_MEMO3_PID, SPL_MEMO3>>, <<SPL_TOKEN_PID, SPL_TOKEN>> }

\* C23: in the fork as genesis made it, every key of the program table holds
\* an executable, rent-exempt account whose data is the bytecode embedded for
\* that key, so none is without an account and none holds another's bytecode.
C23_ProgramsInstalled ==
    rpc_requests = 0 =>
        \A entry \in ProgramTable :
            /\ IsSome(get_account(fork, entry[1]))
            /\ fork[entry[1]].executable
            /\ fork[entry[1]].data = entry[2]
            /\ fork[entry[1]].lamports >= minimum_balance(entry[2].len)

\* C24: in every step of advance_blockhash the candidate differs from the
\* token the step began with, so that registering it ends the tick loop, and a
\* step takes no more than the ticks of one slot.
C24_AdvanceTerminates ==
    \A t \in AllTasks :
        pc[t] = "adv_while" =>
            /\ local[t].new_hash # local[t].last_snapshot
            /\ local[t].ticks <= local[t].steps * TicksPerSlot

\* C25: the token changes only in a step of an advance_blockhash call: every
\* step of a batch, of set_rpc_config, of rent_exempt_balance and of the reads
\* leaves the clock as it is; advance_blockhash returns the token it leaves;
\* and latest_blockhash returns the current token, which is therefore the one
\* the last advance_blockhash (build's, if there was no other) returned.
C25_TokenChangesOnlyByAdvance ==
    [][/\ (\A t \in AllTasks : ~(lock = t /\ local[t].op = "advance_blockhash"))
             => clock' = clock
       /\ \A t \in AllTasks :
             adv_return(t) => (resp'[t].hash = clock.last_blockhash /\ clock' = clock)
       /\ \A t \in Tasks :
             latest_blockhash(t) => (resp'[t].hash = clock.last_blockhash /\ clock' = clock)
      ]_vars

\* latest_blockhash has returned the token that an advance_blockhash after
\* build returned, with a batch call made in between or not.
C25_Witness ==
    \E t \in Tasks : \E u \in Tasks :
        /\ Returned(u, "advance_blockhash")
        /\ Returned(t, "latest_blockhash")
        /\ resp[t].hash = resp[u].hash
        /\ resp[u].hash # resp[Main].hash

\* Task t's batch call is waiting for the answer to a multi-get.
WaitingForRemote(t) ==
    local[t].op = "execute_transaction_batch" /\ pc[t] \in {"fetch1", "fetch2"}

\* C26: a batch call that waits for a multi-get holds the lock, and no step
\* taken during the wait takes the lock from it or completes the request of
\* another task, a read included: as long as the remote does not answer, no
\* other request gets the lock or a reply.
C26_RemoteWaitBlocksAll ==
    [][\A t \in Tasks :
          WaitingForRemote(t) =>
              /\ lock = t
              /\ WaitingForRemote(t)' => lock' = t
              /\ \A u \in Tasks \ {t} :
                    /\ pc[u] \in {"idle", "lock"}
                    /\ pc'[u] \in {"idle", "lock"}
                    /\ resp'[u].outcome \in {resp[u].outcome, "none"}
      ]_vars

\* A batch call waits for its second multi-get while a get_account of another
\* task waits for the lock.
C26_Witness ==
    \E t \in Tasks : \E u \in Tasks :
        /\ WaitingForRemote(t)
        /\ Running(t, "fetch2")
        /\ pc[u] = "lock"
        /\ local[u].op = "get_account"
====
